---- MODULE Spec2Model ----
(***************************************************************************)
(* Quizly: the create-quiz pipeline (download_audio -> transcribe_audio -> *)
(* generate_quiz -> _save_quiz) of quiz_app, and the generation service's  *)
(* parsing, validation and retry loop.                                     *)
(*                                                                         *)
(* Data representation                                                     *)
(*   scalar JSON value   <<tag, text>>, tag "str" or "num"                 *)
(*   question_options    [kind, keys, items]: a list (kind "list", items)  *)
(*                       or a keyed mapping (kind "dict", keys and items)  *)
(*   array element       [kind, d]: kind "dict" with d the object, or a    *)
(*                       non-object JSON value ("str", "int", "null",      *)
(*                       "list") with d empty                              *)
(*   text                [pre, body, post]: the characters before and      *)
(*                       after one JSON document (or undecodable body)     *)
(*   message             a sequence of string segments (an f-string's      *)
(*                       literal parts and formatted values in order)      *)
(***************************************************************************)
EXTENDS Integers, Sequences, FiniteSets, TLC

(***************************************************************************)
(* Program constants                                                       *)
(***************************************************************************)
\* quiz_generation_service.py:151
MAX_RETRIES == 3
\* quiz_generation_service.py:87-88, the truncation length
MAX_QUESTIONS == 10
\* quiz_generation_service.py:107, the required number of options
NUM_OPTIONS == 4

(***************************************************************************)
(* Bounds of the model                                                     *)
(***************************************************************************)
\* longest array the external call returns in the model
MaxItems == 11

\* the create requests in flight
Runs == {1, 2}

\* a client sends a further create request only while fewer than this many
\* quizzes have been created
MaxQuizzes == 2

(***************************************************************************)
(* Generic helpers                                                         *)
(***************************************************************************)
Range(s) == {s[i] : i \in DOMAIN s}

Take(s, n) == [i \in 1..(IF n < Len(s) THEN n ELSE Len(s)) |-> s[i]]

Drop(s, n) == [i \in 1..(IF n < Len(s) THEN Len(s) - n ELSE 0) |-> s[i + n]]

\* m occurs in msg as a contiguous run of segments
Contains(msg, m) ==
    \E i \in 0..(Len(msg) - Len(m)) : \A j \in 1..Len(m) : msg[i + j] = m[j]

S(x) == <<"str", x>>
N(x) == <<"num", x>>

\* str(v) of a scalar
PyStr(v) == v[2]

\* repr(v) of a scalar inside an f-string
PyRepr(v) == IF v[1] = "str" THEN "'" \o v[2] \o "'" ELSE v[2]

(***************************************************************************)
(* Exceptions: an outcome is NoExc or a raised exception with its message  *)
(***************************************************************************)
NoExc == [exc |-> "none", msg |-> <<>>]
Raise(t, m) == [exc |-> t, msg |-> m]

(***************************************************************************)
(* str methods on character sequences                                      *)
(***************************************************************************)
WS == " "
\* the backtick character
TICK == "BT"

RECURSIVE LStrip(_, _)
LStrip(s, c) == IF s # <<>> /\ s[1] = c THEN LStrip(Tail(s), c) ELSE s

RECURSIVE RStrip(_, _)
RStrip(s, c) ==
    IF s # <<>> /\ s[Len(s)] = c THEN RStrip(SubSeq(s, 1, Len(s) - 1), c) ELSE s

StartsWith(s, p) == Len(s) >= Len(p) /\ SubSeq(s, 1, Len(p)) = p

\* Does the character run hold anything but whitespace?
Blank(s) == \A i \in DOMAIN s : s[i] = WS

\* str.strip(c) of a text: leading c's of pre, trailing c's of post.  The
\* body (a JSON document or prose) neither starts nor ends with c, so the
\* strip stops at it.
StripText(t, c) ==
    [t EXCEPT !.pre = LStrip(t.pre, c), !.post = RStrip(t.post, c)]

Result(v) == [exc |-> "none", msg |-> <<>>, val |-> v]
RaiseV(t, m) == [exc |-> t, msg |-> m, val |-> <<>>]

(***************************************************************************)
(* quiz_generation_service.py                                              *)
(***************************************************************************)
\* _build_prompt: the template ends with the placeholder, so the prompt is
\* the template's text followed by the transcript
build_prompt(transcript) == <<"QUIZ_PROMPT">> \o transcript

\* response.text.strip() in _call_gemini
call_gemini_strip(text) == StripText(text, WS)

\* _clean_response
clean_response(raw_text) ==
    IF StartsWith(raw_text.pre, <<TICK, TICK, TICK>>)
    THEN LET t1 == StripText(raw_text, TICK)
             t2 == IF StartsWith(t1.pre, <<"j", "s", "o", "n">>)
                   THEN [t1 EXCEPT !.pre = Drop(t1.pre, 4)]
                   ELSE t1
         IN  StripText(t2, WS)
    ELSE raw_text

\* json.loads skips whitespace around one document; anything else before it,
\* an undecodable document, or anything else after it is a JSONDecodeError
JsonDecodeError(json_str) ==
    IF ~Blank(json_str.pre) \/ json_str.body.type = "invalid"
    THEN <<"Expecting value">>
    ELSE IF ~Blank(json_str.post) THEN <<"Extra data">> ELSE <<>>

\* _parse_questions
parse_questions(json_str) ==
    IF JsonDecodeError(json_str) # <<>>
    THEN RaiseV("ValueError",
                <<"Could not parse quiz from AI response: ">>
                    \o JsonDecodeError(json_str))
    ELSE IF json_str.body.type # "array"
         THEN RaiseV("ValueError", <<"Gemini response is not a JSON array.">>)
         ELSE Result(json_str.body.items)

\* mutant: the slice keeps one record too few
trim_and_validate_short(questions) ==
    IF Len(questions) >= MAX_QUESTIONS
    THEN Take(questions, MAX_QUESTIONS - 1)
    ELSE questions

\* _trim_and_validate
trim_and_validate(questions) ==
    IF Len(questions) > MAX_QUESTIONS
    THEN Take(questions, MAX_QUESTIONS)
    ELSE questions

\* list(question.keys()): the keys in the order the object was written
KeyOrder == <<"question_title", "question_options", "answer", "explanation">>

KeysOf(d) == SelectSeq(KeyOrder, LAMBDA k : k \in DOMAIN d)

\* repr of an options value inside an f-string
OptionsRepr(o) ==
    IF o.kind = "list"
    THEN [i \in DOMAIN o.items |-> PyRepr(o.items[i])]
    ELSE [i \in 1..(2 * Len(o.items)) |->
             IF i % 2 = 1 THEN "'" \o o.keys[(i + 1) \div 2] \o "':"
                          ELSE PyRepr(o.items[i \div 2])]

\* _validate_required_keys.  `key in question` is a key lookup on a dict, a
\* substring test on a str, a membership test on a list (neither finds the
\* key names, and the message then calls question.keys()), and a TypeError
\* on a number or null.
validate_required_keys(question, index) ==
    CASE question.kind = "dict" ->
            IF {"question_title", "question_options", "answer"}
                   \subseteq DOMAIN question.d
            THEN NoExc
            ELSE Raise("ValueError",
                       <<"Question ", ToString(index),
                         " is missing required fields. ", "Got keys: ">>
                           \o KeysOf(question.d))
      [] question.kind \in {"str", "list"} ->
            Raise("AttributeError",
                  <<"'", question.kind, "' object has no attribute 'keys'">>)
      [] OTHER ->
            Raise("TypeError",
                  <<"argument of type '", question.kind, "' is not iterable">>)

\* _validate_options
validate_options(question, index) ==
    LET options == question.d.question_options
    IN  IF options.kind # "list" \/ Len(options.items) # NUM_OPTIONS
        THEN Raise("ValueError",
                   <<"Question ", ToString(index),
                     " must have exactly 4 answer options as a list. ",
                     "Got: ">> \o OptionsRepr(options))
        ELSE NoExc

\* _validate_answer: `not in` on the options list compares by equality
validate_answer(question, index) ==
    IF question.d.answer \notin Range(question.d.question_options.items)
    THEN Raise("ValueError",
               <<"Question ", ToString(index), " has invalid answer: '",
                 PyStr(question.d.answer), "'. ",
                 "Answer must match one of the question_options.">>)
    ELSE NoExc

\* _validate_question_structure: the three checks in order, the first
\* exception leaves
validate_question_structure(question, index) ==
    IF validate_required_keys(question, index) # NoExc
    THEN validate_required_keys(question, index)
    ELSE IF validate_options(question, index) # NoExc
         THEN validate_options(question, index)
         ELSE validate_answer(question, index)

\* mutant: the index passed on is enumerate's own, counted from 0
generate_quiz_questions_from_zero(questions) ==
    LET bad == {i \in DOMAIN questions :
                   validate_question_structure(questions[i], i) # NoExc}
    IN  IF bad = {}
        THEN NoExc
        ELSE LET i == CHOOSE j \in bad : \A k \in bad : j <= k
             IN  validate_question_structure(questions[i], i - 1)

\* generate_quiz_questions: enumerate from 1, the first exception leaves
generate_quiz_questions(questions) ==
    LET bad == {i \in DOMAIN questions :
                   validate_question_structure(questions[i], i) # NoExc}
    IN  IF bad = {}
        THEN NoExc
        ELSE LET i == CHOOSE j \in bad : \A k \in bad : j <= k
             IN  validate_question_structure(questions[i], i)

\* mutant: the truncated list is validated but the parsed one is returned
fetch_and_validate_untrimmed(prompt, reply) ==
    IF reply.raises # "none"
    THEN RaiseV(reply.raises, <<"external call failed">>)
    ELSE LET parsed == parse_questions(
                           clean_response(call_gemini_strip(reply.text)))
             checked == generate_quiz_questions(
                            trim_and_validate(parsed.val))
         IN  IF parsed.exc # "none"
             THEN parsed
             ELSE IF checked # NoExc
                  THEN RaiseV(checked.exc, checked.msg)
                  ELSE Result(parsed.val)

\* mutant: the parsed list is validated whole, and truncated afterwards
fetch_and_validate_validate_first(prompt, reply) ==
    IF reply.raises # "none"
    THEN RaiseV(reply.raises, <<"external call failed">>)
    ELSE LET parsed == parse_questions(
                           clean_response(call_gemini_strip(reply.text)))
             checked == generate_quiz_questions(parsed.val)
         IN  IF parsed.exc # "none"
             THEN parsed
             ELSE IF checked # NoExc
                  THEN RaiseV(checked.exc, checked.msg)
                  ELSE Result(trim_and_validate(parsed.val))

\* _fetch_and_validate on what the external call did: reply.raises is the
\* exception generate_content raised ("none": it returned reply.text)
fetch_and_validate(prompt, reply) ==
    IF reply.raises # "none"
    THEN RaiseV(reply.raises, <<"external call failed">>)
    ELSE LET raw_text == call_gemini_strip(reply.text)
             cleaned == clean_response(raw_text)
             parsed == parse_questions(cleaned)
             questions == trim_and_validate(parsed.val)
             checked == generate_quiz_questions(questions)
         IN  IF parsed.exc # "none"
             THEN parsed
             ELSE IF checked # NoExc
                  THEN RaiseV(checked.exc, checked.msg)
                  ELSE Result(questions)

\* mutant: the message leaves out the attempt's error
ExhaustedMessageNoCause(e) ==
    <<"Quiz generation ", "failed after ", ToString(MAX_RETRIES), " attempts",
      ". ", "Last error: ">>

\* the ValueError generate_quiz raises on the last attempt
ExhaustedMessage(e) ==
    <<"Quiz generation ", "failed after ", ToString(MAX_RETRIES), " attempts",
      ". ", "Last error: ">> \o e

\* mutant: the check never raises
ensure_api_key_skipped(key) == NoExc

\* _ensure_api_key on settings.GEMINI_API_KEY (TRUE: a key is configured)
ensure_api_key(key) ==
    IF ~key
    THEN Raise("ValueError",
               <<"GEMINI_API_KEY is not configured. ",
                 "Please add it to your .env file.">>)
    ELSE NoExc

\* mutant: the loop gives up one attempt late
LastAttemptLate(attempt) == attempt = MAX_RETRIES + 1

\* `if attempt == MAX_RETRIES` in generate_quiz's except clause
LastAttempt(attempt) == attempt = MAX_RETRIES

(***************************************************************************)
(* What the external generation call can return                            *)
(***************************************************************************)
ListOptions(items) == [kind |-> "list", keys |-> <<>>, items |-> items]

KeyedOptions ==
    [kind |-> "dict", keys |-> <<"A", "B", "C", "D">>,
     items |-> <<S("Option A"), S("Option B"), S("Option C"), S("Option D")>>]

FourOptions == <<S("a"), S("b"), S("c"), S("d")>>

NoDict == [k \in {} |-> 0]

Dict(d) == [kind |-> "dict", d |-> d]

Title(i) == S("Q" \o ToString(i))

\* a record the validation accepts; its answer is one of its four options
ValidQ(i) ==
    Dict([question_title |-> Title(i),
          question_options |-> ListOptions(FourOptions),
          answer |-> FourOptions[(i % NUM_OPTIONS) + 1]])

ElementKinds ==
    {"nokey", "three", "keyed", "wrong", "extra", "numeric", "empty",
     "str", "int", "null", "list"}

\* the element at position i of an array, well-formed ("ok") or of one of
\* the kinds a model's output can take
Element(i, kind) ==
    CASE kind = "nokey" ->
            Dict([question_title |-> Title(i),
                  question_options |-> ListOptions(FourOptions)])
      [] kind = "three" ->
            Dict([question_title |-> Title(i),
                  question_options |-> ListOptions(Take(FourOptions, 3)),
                  answer |-> S("a")])
      [] kind = "keyed" ->
            Dict([question_title |-> Title(i),
                  question_options |-> KeyedOptions,
                  answer |-> S("A")])
      [] kind = "wrong" ->
            Dict([question_title |-> Title(i),
                  question_options |-> ListOptions(FourOptions),
                  answer |-> S("e")])
      [] kind = "extra" ->
            Dict([question_title |-> Title(i),
                  question_options |-> ListOptions(FourOptions),
                  answer |-> S("b"),
                  explanation |-> S("because")])
      [] kind = "numeric" ->
            Dict([question_title |-> Title(i),
                  question_options |->
                      ListOptions(<<N("3"), N("4"), N("5"), N("6")>>),
                  answer |-> N("4")])
      [] kind = "empty" ->
            Dict([question_title |-> Title(i),
                  question_options |->
                      ListOptions(<<S(""), S("b"), S("c"), S("d")>>),
                  answer |-> S("")])
      [] kind = "threewrong" ->
            Dict([question_title |-> Title(i),
                  question_options |-> ListOptions(Take(FourOptions, 3)),
                  answer |-> S("e")])
      [] kind = "bare" ->
            Dict([question_options |-> ListOptions(Take(FourOptions, 3)),
                  answer |-> S("e")])
      [] kind \in {"str", "int", "null", "list"} ->
            [kind |-> kind, d |-> NoDict]
      [] OTHER -> ValidQ(i)

\* an array of n elements, all well-formed but the one at position p
\* (p = 0: none), which is of the given kind
Array(n, p, kind) ==
    [type |-> "array",
     items |-> [i \in 1..n |-> IF i = p THEN Element(i, kind) ELSE ValidQ(i)]]

\* the same with two odd elements, at positions p and q
Array2(n, p, kind, q, kind2) ==
    [type |-> "array",
     items |-> [i \in 1..n |->
                   IF i = p THEN Element(i, kind)
                   ELSE IF i = q THEN Element(i, kind2) ELSE ValidQ(i)]]

NotArray == [type |-> "object", items |-> <<>>]
Undecodable == [type |-> "invalid", items |-> <<>>]

Plain(doc) == [pre |-> <<>>, body |-> doc, post |-> <<>>]

\* the ways a model wraps its JSON: code fences with and without the
\* language tag, padding, an unclosed fence, prose before or after
Wrappings(doc) ==
    { [pre |-> <<TICK, TICK, TICK, "j", "s", "o", "n", WS>>, body |-> doc,
       post |-> <<WS, TICK, TICK, TICK>>],
      [pre |-> <<TICK, TICK, TICK, WS>>, body |-> doc,
       post |-> <<WS, TICK, TICK, TICK, WS>>],
      [pre |-> <<WS, WS>>, body |-> doc, post |-> <<WS>>],
      [pre |-> <<TICK, TICK, TICK, "j", "s", "o", "n">>, body |-> doc,
       post |-> <<>>],
      [pre |-> <<"x", WS>>, body |-> doc, post |-> <<>>],
      [pre |-> <<>>, body |-> doc, post |-> <<WS, "x">>],
      [pre |-> <<TICK, TICK, TICK, "J", "S", "O", "N", WS>>, body |-> doc,
       post |-> <<WS, TICK, TICK, TICK>>] }

\* positions of the odd element: the first, the last kept, the first cut
Positions(n) == {1, MAX_QUESTIONS, MAX_QUESTIONS + 1} \cap 1..n

GenDocs ==
    {NotArray, Undecodable}
        \cup {Array(n, 0, "ok") : n \in 0..MaxItems}
        \cup UNION {{Array(n, p, k) : p \in Positions(n), k \in ElementKinds} :
                        n \in 1..MaxItems}
        \cup {Array2(3, 1, "wrong", 3, "wrong"),
              Array2(3, 1, "nokey", 2, "wrong"),
              Array2(3, 2, "threewrong", 3, "int"),
              Array2(3, 1, "bare", 2, "nokey"),
              Array2(3, 1, "int", 2, "wrong")}

GenTexts ==
    {Plain(doc) : doc \in GenDocs}
        \cup Wrappings(Array(MAX_QUESTIONS, 0, "ok"))
        \cup Wrappings(Array(2, 2, "wrong"))

Returned(text) == [raises |-> "none", text |-> text]
Raised(exc) == [raises |-> exc, text |-> Plain(Undecodable)]

\* generate_content raises: an API or network error, or a ValueError
\* (the SDK's own argument and response validation)
ProviderErrors == {Raised("APIError"), Raised("ValueError")}

GenReplies == {Returned(t) : t \in GenTexts} \cup ProviderErrors

PipelineReplies ==
    { Returned(Plain(Undecodable)),
      Returned(Plain(Array(0, 0, "ok"))),
      Returned(Plain(Array(MAX_QUESTIONS, 0, "ok"))),
      Returned(Plain(Array(2, 1, "extra"))),
      Returned(Plain(Array2(2, 1, "empty", 2, "numeric"))),
      Raised("APIError") }

(***************************************************************************)
(* Requests and the other stages' outcomes                                 *)
(***************************************************************************)
Users == {"u1", "u2"}
Anonymous == "anonymous"

\* the client of each request: it sends its credentials or none
UserOf(r) == IF r % 2 = 1 THEN "u1" ELSE "u2"

MOCK_VIDEO_URL == <<"https", "://", "www.youtube.com", "/watch?v=test123">>

Urls == {MOCK_VIDEO_URL, <<"not-a-valid-url">>, <<>>}

\* mutant: the field takes any value
url_is_valid_any(url) == TRUE

\* URLField: a scheme of the validator's list, "://" and a host
url_is_valid(url) ==
    /\ Len(url) >= 3
    /\ url[1] \in {"http", "https", "ftp", "ftps"}
    /\ url[2] = "://"

\* info.get('title', 'Untitled Video')
Titles == {"Mocked Video Title", "Untitled Video"}

\* the text whisper returns: characters, WS for whitespace
SpeechTexts == {<<WS, "S", WS, "T", WS>>, <<WS>>, <<>>}

Transcripts == {<<"S">>, <<"S", WS, "T">>}

EmptyText == Plain(Undecodable)
NoReply == [raises |-> "none", text |-> EmptyText]
NoData == [id |-> 0, title |-> "", video_url |-> <<>>, questions |-> <<>>]
NoResponse == [status |-> 0, detail |-> <<>>, data |-> NoData]
NoResult == [audio_path |-> 0, title |-> ""]
NotRaised == [stage |-> "", exc |-> "none", msg |-> <<>>]
NotTranscribed == [raises |-> "not called", text |-> <<>>]

(***************************************************************************)
(* State                                                                   *)
(***************************************************************************)
VARIABLES
    GEMINI_API_KEY,    \* settings.GEMINI_API_KEY is set
    model,             \* transcription_service._model (0: None)
    load_count,        \* calls of whisper.load_model so far
    fs,                \* the audio files that exist under MEDIA_ROOT/audio
    uuid_count,        \* identifiers uuid4 has issued
    quiz_rows,         \* table quiz_app_quiz
    question_rows,     \* table quiz_app_question
    next_quiz_id,      \* the tables' auto-increment keys
    next_question_id,
    runs,              \* one create request each: its locals and history
    listed,            \* the last response of GET /api/quizzes/
    destroyed          \* the last response of DELETE /api/quizzes/{id}/

vars == <<GEMINI_API_KEY, model, load_count, fs, uuid_count, quiz_rows,
          question_rows, next_quiz_id, next_question_id, runs, listed,
          destroyed>>

NotListed == [user |-> Anonymous, status |-> 0, data |-> <<>>]
NotDestroyed == [user |-> Anonymous, id |-> 0, status |-> 0]

NewRun ==
    [pc |-> "request", user |-> Anonymous, video_url |-> <<>>,
     result |-> NoResult, whisper |-> 0, transcript |-> <<>>,
     prompt |-> <<>>, attempt |-> 0, questions_data |-> <<>>, quiz |-> 0,
     response |-> NoResponse,
     \* history: the exception that left a stage, the prompts passed to the
     \* external call, each attempt's ValueError, the last reply
     raised |-> NotRaised, calls |-> <<>>, errors |-> <<>>,
     reply |-> NoReply,
     \* the stages _run_pipeline has called, those that have returned, and
     \* the os.remove calls of transcribe_audio that went through
     stages |-> <<>>, finished |-> <<>>, removed |-> 0,
     \* what model.transcribe did in the run's call of transcribe_audio
     speech |-> NotTranscribed]

Init ==
    /\ GEMINI_API_KEY \in BOOLEAN
    /\ model = 0
    /\ load_count = 0
    /\ fs = {}
    /\ uuid_count = 0
    /\ quiz_rows = {}
    /\ question_rows = {}
    /\ next_quiz_id = 1
    /\ next_question_id = 1
    /\ runs = [r \in Runs |-> NewRun]
    /\ listed = NotListed
    /\ destroyed = NotDestroyed

Set(r, rec) == runs' = [runs EXCEPT ![r] = rec]

\* QuizListCreateView.create's handler: a ValueError of the pipeline becomes
\* a 400 with its text; any other exception leaves the view
create_except(e) ==
    IF e.exc = "ValueError"
    THEN [status |-> 400, detail |-> e.msg, data |-> NoData]
    ELSE [status |-> 500, detail |-> <<>>, data |-> NoData]

\* _run_pipeline calls a stage; the stage returns to it
Start(run, stage) == [run EXCEPT !.stages = Append(@, stage)]
Finish(run, stage) == [run EXCEPT !.finished = Append(@, stage)]

\* mutant: an exception of download_audio is swallowed and the pipeline goes
\* on to the next call
FailGoesOn(run, stage, e) ==
    IF stage = "download_audio"
    THEN [run EXCEPT !.pc = "transcribe_audio"]
    ELSE [run EXCEPT !.pc = "done",
                     !.raised = [stage |-> stage, exc |-> e.exc,
                                 msg |-> e.msg],
                     !.response = create_except(e)]

\* the run ends with exception e raised by the given stage
Fail(run, stage, e) ==
    [run EXCEPT !.pc = "done",
                !.raised = [stage |-> stage, exc |-> e.exc, msg |-> e.msg],
                !.response = create_except(e)]

(***************************************************************************)
(* models.py and api/serializers.py                                        *)
(***************************************************************************)
\* CharField.get_prep_value: a value that is not a str is stored as str(v)
CharField(v) == S(PyStr(v))

\* the keyword arguments Question(...) accepts besides quiz
QuestionFields == {"question_title", "question_options", "answer"}

\* Question(quiz=quiz, **q) as the row bulk_create inserts
QuestionRow(id, quiz, q) ==
    [id |-> id, quiz |-> quiz,
     question_title |-> CharField(q.d.question_title),
     question_options |-> q.d.question_options,
     answer |-> CharField(q.d.answer)]

QuestionsOf(rows, quiz) == {row \in rows : row.quiz = quiz}

\* a set of rows as the sequence ordered by id
RECURSIVE ById(_)
ById(rows) ==
    IF rows = {}
    THEN <<>>
    ELSE LET first == CHOOSE x \in rows : \A y \in rows : x.id <= y.id
         IN  <<first>> \o ById(rows \ {first})

\* QuestionSerializer.get_question_options: list(....values()), the texts of
\* a mapping as a list; .values() exists on a mapping only
get_question_options(obj) ==
    IF obj.question_options.kind = "dict"
    THEN Result(ListOptions(obj.question_options.items))
    ELSE RaiseV("AttributeError",
                <<"'list' object has no attribute 'values'">>)

\* mutant: the answer is represented as it is stored
get_answer_stored(obj) == Result(obj.answer)

\* QuestionSerializer.get_answer: question_options.get(answer, answer)
get_answer(obj) ==
    LET o == obj.question_options
        at == {i \in DOMAIN o.keys : S(o.keys[i]) = obj.answer}
    IN  IF o.kind # "dict"
        THEN RaiseV("AttributeError",
                    <<"'list' object has no attribute 'get'">>)
        ELSE IF at = {}
             THEN Result(obj.answer)
             ELSE Result(o.items[CHOOSE i \in at : TRUE])

QuestionSerializer(obj) ==
    [id |-> obj.id, question_title |-> obj.question_title,
     question_options |-> get_question_options(obj).val,
     answer |-> get_answer(obj).val]

\* QuizSerializer(quiz).data over the question rows the quiz has now
QuizSerializer(quiz, rows) ==
    LET qs == ById(QuestionsOf(rows, quiz.id))
    IN  IF \E i \in DOMAIN qs : get_question_options(qs[i]).exc # "none"
        THEN RaiseV("AttributeError",
                    <<"'list' object has no attribute 'values'">>)
        ELSE Result([id |-> quiz.id, title |-> quiz.title,
                     video_url |-> quiz.video_url,
                     questions |-> [i \in DOMAIN qs |->
                                       QuestionSerializer(qs[i])]])

(***************************************************************************)
(* POST /api/quizzes/: QuizListCreateView.create, one action per step that *)
(* another request can observe                                             *)
(***************************************************************************)
\* permission check and QuizCreateSerializer.is_valid
Create(r) ==
    /\ runs[r].pc = "request"
    /\ \E user \in {UserOf(r), Anonymous}, url \in Urls :
          LET run == [runs[r] EXCEPT !.user = user, !.video_url = url]
          IN  Set(r,
                 IF user = Anonymous
                 THEN [run EXCEPT
                          !.pc = "done",
                          !.response =
                              [status |-> 401,
                               detail |-> <<"Authentication credentials ",
                                            "were not provided.">>,
                               data |-> NoData]]
                 ELSE IF ~url_is_valid(url)
                      THEN [run EXCEPT
                               !.pc = "done",
                               !.response =
                                   [status |-> 400,
                                    detail |-> <<"url">>,
                                    data |-> NoData]]
                      ELSE [run EXCEPT !.pc = "download_audio"])
    /\ UNCHANGED <<GEMINI_API_KEY, model, load_count, fs, uuid_count,
                   quiz_rows, question_rows, next_quiz_id, next_question_id,
                   listed, destroyed>>

DownloadMessage(cause) ==
    <<"Could not download audio from the provided URL: ">> \o cause

\* mutant: the file name is the same for every call
prepare_output_path_fixed(count) == 1

\* _prepare_output_path: str(uuid.uuid4()) under media/audio, a name no
\* earlier call has drawn; count is the number of names drawn so far
prepare_output_path(count) == count + 1

\* download_audio: a fresh uuid4 path, the extraction, the file check
DownloadAudio(r) ==
    /\ runs[r].pc = "download_audio"
    /\ uuid_count' = uuid_count + 1
    /\ \E outcome \in {"ok", "extract_error", "no_file"}, title \in Titles :
          LET audio_path == prepare_output_path(uuid_count)
              run == Start(runs[r], "download_audio")
          IN  CASE outcome = "ok" ->
                     /\ fs' = fs \cup {audio_path}
                     /\ Set(r, [Finish(run, "download_audio") EXCEPT
                                   !.pc = "transcribe_audio",
                                   !.result = [audio_path |-> audio_path,
                                               title |-> title]])
                [] outcome = "extract_error" ->
                     /\ fs' = fs
                     /\ Set(r, Fail(run, "download_audio",
                                    Raise("ValueError",
                                          DownloadMessage(
                                              <<"Download failed">>))))
                [] outcome = "no_file" ->
                     /\ fs' = fs
                     /\ Set(r, Fail(run, "download_audio",
                                    Raise("ValueError",
                                          DownloadMessage(
                                              <<"Audio file was not created ",
                                                "after download.">>))))
    /\ UNCHANGED <<GEMINI_API_KEY, model, load_count, quiz_rows,
                   question_rows, next_quiz_id, next_question_id,
                   listed, destroyed>>

\* the downloaded file disappears before transcribe_audio looks for it
\* (the case transcribe_audio's os.path.exists check is written for)
AudioFileLost(r) ==
    /\ runs[r].pc = "transcribe_audio"
    /\ runs[r].result.audio_path \in fs
    /\ fs' = fs \ {runs[r].result.audio_path}
    /\ UNCHANGED <<GEMINI_API_KEY, model, load_count, uuid_count, quiz_rows,
                   question_rows, next_quiz_id, next_question_id, runs,
                   listed, destroyed>>

\* transcribe_audio up to _get_model's `if _model is None`
TranscribeAudio(r) ==
    /\ runs[r].pc = "transcribe_audio"
    /\ LET run == Start(runs[r], "transcribe_audio")
       IN  Set(r,
              IF run.result.audio_path \notin fs
              THEN Fail(run, "transcribe_audio",
                        Raise("FileNotFoundError",
                              <<"Audio file not found: ",
                                ToString(run.result.audio_path)>>))
              ELSE IF model = 0
                   THEN [run EXCEPT !.pc = "load_model"]
                   ELSE [run EXCEPT !.pc = "transcribe", !.whisper = model])
    /\ UNCHANGED <<GEMINI_API_KEY, model, load_count, fs, uuid_count,
                   quiz_rows, question_rows, next_quiz_id, next_question_id,
                   listed, destroyed>>

\* _get_model: whisper.load_model and the assignment to the global
LoadModel(r) ==
    /\ runs[r].pc = "load_model"
    /\ load_count' = load_count + 1
    /\ model' = load_count + 1
    /\ Set(r, [runs[r] EXCEPT !.pc = "transcribe", !.whisper = load_count + 1])
    /\ UNCHANGED <<GEMINI_API_KEY, fs, uuid_count, quiz_rows, question_rows,
                   next_quiz_id, next_question_id,
                   listed, destroyed>>

TranscribeMessage(cause) == <<"Failed to transcribe audio: ">> \o cause

\* what the try block of transcribe_audio comes to: the stripped text, or
\* the ValueError its except clause raises
transcribe_try(speech) ==
    IF speech.raises # "none"
    THEN RaiseV("ValueError", TranscribeMessage(<<"whisper failed">>))
    ELSE LET transcript == LStrip(RStrip(speech.text, WS), WS)
         IN  IF transcript = <<>>
             THEN RaiseV("ValueError",
                         TranscribeMessage(
                             <<"Transcription returned empty text.">>))
             ELSE Result(transcript)

SpeechResults ==
    {[raises |-> "none", text |-> t] : t \in SpeechTexts}
        \cup {[raises |-> "RuntimeError", text |-> <<>>]}

\* mutant: the finally clause leaves the file
cleanup_skipped(files, audio_path) == files

\* the finally clause of transcribe_audio, os.remove going through
cleanup(files, audio_path) == files \ {audio_path}

\* model.transcribe, the strip and the empty check, then the finally clause:
\* os.remove of the audio file, which can itself raise
Transcribe(r) ==
    /\ runs[r].pc = "transcribe"
    /\ \E speech \in SpeechResults, remove_ok \in BOOLEAN :
          LET audio_path == runs[r].result.audio_path
              tried == transcribe_try(speech)
          IN  IF audio_path \in fs /\ ~remove_ok
              THEN /\ fs' = fs
                   /\ Set(r, Fail([runs[r] EXCEPT !.speech = speech],
                                  "transcribe_audio",
                                  Raise("OSError", <<"os.remove failed">>)))
              ELSE LET run == [runs[r] EXCEPT
                                  !.speech = speech,
                                  !.removed =
                                      IF audio_path \in fs THEN @ + 1 ELSE @]
                   IN  /\ fs' = cleanup(fs, audio_path)
                       /\ Set(r,
                             IF tried.exc # "none"
                             THEN Fail(run, "transcribe_audio",
                                       Raise(tried.exc, tried.msg))
                             ELSE [Finish(run, "transcribe_audio") EXCEPT
                                      !.pc = "generate_quiz",
                                      !.transcript = tried.val])
    /\ UNCHANGED <<GEMINI_API_KEY, model, load_count, uuid_count, quiz_rows,
                   question_rows, next_quiz_id, next_question_id,
                   listed, destroyed>>

\* generate_quiz before its loop: _ensure_api_key and _build_prompt
GenerateQuiz(r) ==
    /\ runs[r].pc = "generate_quiz"
    /\ LET run == Start(runs[r], "generate_quiz")
       IN  Set(r,
              IF ensure_api_key(GEMINI_API_KEY) # NoExc
              THEN Fail(run, "generate_quiz", ensure_api_key(GEMINI_API_KEY))
              ELSE [run EXCEPT !.pc = "fetch_and_validate",
                               !.prompt = build_prompt(run.transcript),
                               !.attempt = 1])
    /\ UNCHANGED <<GEMINI_API_KEY, model, load_count, fs, uuid_count,
                   quiz_rows, question_rows, next_quiz_id, next_question_id,
                   listed, destroyed>>

\* mutant: after a ValueError the whole pipeline is run again, not only the
\* external call
AttemptFromTheTop(r, reply) ==
    LET run == [runs[r] EXCEPT !.calls = Append(@, runs[r].prompt),
                               !.reply = reply]
        got == fetch_and_validate(runs[r].prompt, reply)
    IN  CASE got.exc = "none" ->
                [Finish(run, "generate_quiz") EXCEPT
                    !.pc = "save_quiz", !.questions_data = got.val]
          [] got.exc = "ValueError" ->
                LET failed == [run EXCEPT !.errors = Append(@, got.msg)]
                IN  IF LastAttempt(runs[r].attempt)
                    THEN Fail(failed, "generate_quiz",
                              Raise("ValueError", ExhaustedMessage(got.msg)))
                    ELSE [failed EXCEPT !.attempt = @ + 1,
                                        !.pc = "download_audio"]
          [] OTHER ->
                Fail(run, "generate_quiz", Raise(got.exc, got.msg))

\* one iteration of generate_quiz's loop, the external call answering with
\* reply: return the questions, go on to the next attempt after a
\* ValueError, raise after the last one, let any other exception pass
Attempt(r, reply) ==
    LET run == [runs[r] EXCEPT !.calls = Append(@, runs[r].prompt),
                               !.reply = reply]
        got == fetch_and_validate(runs[r].prompt, reply)
    IN  CASE got.exc = "none" ->
                [Finish(run, "generate_quiz") EXCEPT
                    !.pc = "save_quiz", !.questions_data = got.val]
          [] got.exc = "ValueError" ->
                LET failed == [run EXCEPT !.errors = Append(@, got.msg)]
                IN  IF LastAttempt(runs[r].attempt)
                    THEN Fail(failed, "generate_quiz",
                              Raise("ValueError", ExhaustedMessage(got.msg)))
                    ELSE [failed EXCEPT !.attempt = @ + 1]
          [] OTHER ->
                Fail(run, "generate_quiz", Raise(got.exc, got.msg))

FetchAndValidate(r, replies) ==
    /\ runs[r].pc = "fetch_and_validate"
    /\ \E reply \in replies : Set(r, Attempt(r, reply))
    /\ UNCHANGED <<GEMINI_API_KEY, model, load_count, fs, uuid_count,
                   quiz_rows, question_rows, next_quiz_id, next_question_id,
                   listed, destroyed>>

\* mutant: the status is left at the field's default
quiz_create_default_status(id, user, title, video_url, transcript) ==
    [id |-> id, user |-> user, title |-> title, video_url |-> video_url,
     transcript |-> transcript, status |-> "processing"]

\* the row of Quiz.objects.create(user=..., title=..., video_url=...,
\* transcript=..., status=Quiz.Status.COMPLETED)
quiz_create(id, user, title, video_url, transcript) ==
    [id |-> id, user |-> user, title |-> title, video_url |-> video_url,
     transcript |-> transcript, status |-> "completed"]

\* _save_quiz, first statement: Quiz.objects.create inserts and commits
SaveQuiz(r) ==
    /\ runs[r].pc = "save_quiz"
    /\ quiz_rows' = quiz_rows \cup
          {quiz_create(next_quiz_id, runs[r].user, runs[r].result.title,
                       runs[r].video_url, runs[r].transcript)}
    /\ next_quiz_id' = next_quiz_id + 1
    /\ Set(r, [Start(runs[r], "save_quiz") EXCEPT
                  !.pc = "bulk_create", !.quiz = next_quiz_id])
    /\ UNCHANGED <<GEMINI_API_KEY, model, load_count, fs, uuid_count,
                   question_rows, next_question_id, listed,
                   destroyed>>

QuizRow(id) == CHOOSE row \in quiz_rows : row.id = id

\* Question.quiz is a ForeignKey: the database takes a Question row only if
\* the Quiz row it names is there
foreign_key_holds(quizzes, quiz) == \E row \in quizzes : row.id = quiz

\* _save_quiz, the rest: the Question objects are built (an unexpected
\* keyword is a TypeError), bulk_create inserts them unless the quiz has
\* been deleted meanwhile, and create serializes the quiz for the 201
\* response
BulkCreate(r) ==
    /\ runs[r].pc = "bulk_create"
    /\ LET data == runs[r].questions_data
           rows == {QuestionRow(next_question_id + i - 1, runs[r].quiz,
                                data[i]) : i \in DOMAIN data}
           output == QuizSerializer(QuizRow(runs[r].quiz),
                                    question_rows \cup rows)
       IN  IF \E i \in DOMAIN data : ~(DOMAIN data[i].d \subseteq QuestionFields)
           THEN /\ UNCHANGED <<question_rows, next_question_id>>
                /\ Set(r, Fail(runs[r], "save_quiz",
                               Raise("TypeError",
                                     <<"Question() got unexpected ",
                                       "keyword arguments">>)))
           ELSE IF ~foreign_key_holds(quiz_rows, runs[r].quiz)
           THEN /\ UNCHANGED <<question_rows, next_question_id>>
                /\ Set(r, Fail(runs[r], "save_quiz",
                               Raise("IntegrityError",
                                     <<"FOREIGN KEY constraint failed">>)))
           ELSE /\ question_rows' = question_rows \cup rows
                /\ next_question_id' = next_question_id + Len(data)
                /\ Set(r,
                      IF output.exc # "none"
                      THEN Fail(Finish(runs[r], "save_quiz"), "response",
                                Raise(output.exc, output.msg))
                      ELSE [Finish(runs[r], "save_quiz") EXCEPT
                               !.pc = "done",
                               !.response = [status |-> 201,
                                             detail |-> <<>>,
                                             data |-> output.val]])
    /\ UNCHANGED <<GEMINI_API_KEY, model, load_count, fs, uuid_count,
                   quiz_rows, next_quiz_id, listed, destroyed>>

\* get_queryset: the quizzes of the requesting user, newest first
\* (Meta.ordering = ['-created_at'])
RECURSIVE Newest(_)
Newest(rows) ==
    IF rows = {}
    THEN <<>>
    ELSE LET first == CHOOSE x \in rows : \A y \in rows : x.id >= y.id
         IN  <<first>> \o Newest(rows \ {first})

get_queryset(user) == Newest({row \in quiz_rows : row.user = user})

\* GET /api/quizzes/ by an authenticated user: QuizSerializer(many=True)
\* over get_queryset
ListQuizzes(user) ==
    /\ LET qs == get_queryset(user)
           out == [i \in DOMAIN qs |-> QuizSerializer(qs[i], question_rows)]
       IN  listed' =
              IF \E i \in DOMAIN out : out[i].exc # "none"
              THEN [user |-> user, status |-> 500, data |-> <<>>]
              ELSE [user |-> user, status |-> 200,
                    data |-> [i \in DOMAIN out |-> out[i].val]]
    /\ UNCHANGED <<GEMINI_API_KEY, model, load_count, fs, uuid_count,
                   quiz_rows, question_rows, next_quiz_id, next_question_id,
                   runs, destroyed>>

(***************************************************************************)
(* DELETE /api/quizzes/{id}/                                               *)
(***************************************************************************)
\* mutant: the Question rows of a deleted Quiz stay
on_delete_DO_NOTHING(rows, quiz) == rows

\* Question.quiz has on_delete=models.CASCADE: the rows that are left when
\* the given quiz is deleted
on_delete_CASCADE(rows, quiz) == {row \in rows : row.quiz # quiz}

\* the destroy view as the tests of the endpoint fix it: 401 without
\* credentials, 404 for an id that is not there, 403 for a quiz of another
\* user, else the quiz is deleted, its questions with it, and the answer is
\* 204
DeleteQuiz(user, id) ==
    /\ LET found == {row \in quiz_rows : row.id = id}
           status == IF user = Anonymous THEN 401
                     ELSE IF found = {} THEN 404
                     ELSE IF \E row \in found : row.user # user THEN 403
                     ELSE 204
       IN  /\ destroyed' = [user |-> user, id |-> id, status |-> status]
           /\ IF status = 204
              THEN /\ quiz_rows' = quiz_rows \ found
                   /\ question_rows' = on_delete_CASCADE(question_rows, id)
              ELSE UNCHANGED <<quiz_rows, question_rows>>
    /\ UNCHANGED <<GEMINI_API_KEY, model, load_count, fs, uuid_count,
                   next_quiz_id, next_question_id, runs, listed>>

(***************************************************************************)
(* Specifications                                                          *)
(***************************************************************************)
\* the create requests of Runs, interleaved
Next ==
    \/ \E user \in Users : ListQuizzes(user)
    \/ \E r \in Runs :
        \/ Create(r)
        \/ DownloadAudio(r)
        \/ AudioFileLost(r)
        \/ TranscribeAudio(r)
        \/ LoadModel(r)
        \/ Transcribe(r)
        \/ GenerateQuiz(r)
        \/ FetchAndValidate(r, PipelineReplies)
        \/ SaveQuiz(r)
        \/ BulkCreate(r)

Spec == Init /\ [][Next]_vars

\* a request that has reached its call of generate_quiz(transcript), for
\* every transcript and every answer of the external call
InitGen ==
    /\ GEMINI_API_KEY \in BOOLEAN
    /\ model = 1
    /\ load_count = 1
    /\ fs = {}
    /\ uuid_count = 1
    /\ quiz_rows = {}
    /\ question_rows = {}
    /\ next_quiz_id = 1
    /\ next_question_id = 1
    /\ listed = NotListed
    /\ destroyed = NotDestroyed
    /\ \E transcript \in Transcripts :
          runs = [r \in Runs |->
                     IF r = 1
                     THEN [NewRun EXCEPT
                              !.pc = "generate_quiz",
                              !.user = UserOf(1),
                              !.video_url = MOCK_VIDEO_URL,
                              !.result = [audio_path |-> 1,
                                          title |-> "Mocked Video Title"],
                              !.whisper = 1,
                              !.transcript = transcript,
                              !.stages = <<"download_audio",
                                           "transcribe_audio">>,
                              !.finished = <<"download_audio",
                                             "transcribe_audio">>,
                              !.removed = 1,
                              !.speech = [raises |-> "none",
                                          text |-> transcript]]
                     ELSE NewRun]

NextGen == GenerateQuiz(1) \/ FetchAndValidate(1, GenReplies)

SpecGen == InitGen /\ [][NextGen]_vars

\* what generate_quiz returns to _run_pipeline in the requests below
StoreReplies ==
    { Returned(Plain(Array(2, 1, "extra"))),
      Returned(Plain(Array2(2, 1, "empty", 2, "numeric"))) }

\* a request of UserOf(r) whose download_audio, transcribe_audio and
\* generate_quiz have returned, the external call having answered with
\* reply at the first attempt: _run_pipeline is about to call _save_quiz
Generated(r, audio_path, reply) ==
    LET transcript == <<"S", WS, "T">>
        prompt == build_prompt(transcript)
    IN  [NewRun EXCEPT
            !.pc = "save_quiz",
            !.user = UserOf(r),
            !.video_url = MOCK_VIDEO_URL,
            !.result = [audio_path |-> audio_path,
                        title |-> "Mocked Video Title"],
            !.whisper = 1,
            !.transcript = transcript,
            !.prompt = prompt,
            !.attempt = 1,
            !.questions_data = fetch_and_validate(prompt, reply).val,
            !.calls = <<prompt>>,
            !.reply = reply,
            !.stages = <<"download_audio", "transcribe_audio",
                         "generate_quiz">>,
            !.finished = <<"download_audio", "transcribe_audio",
                           "generate_quiz">>,
            !.removed = 1,
            !.speech = [raises |-> "none", text |-> transcript]]

\* the requests of Runs have both come to _save_quiz
InitStore ==
    /\ GEMINI_API_KEY = TRUE
    /\ model = 1
    /\ load_count = 1
    /\ fs = {}
    /\ uuid_count = Cardinality(Runs)
    /\ quiz_rows = {}
    /\ question_rows = {}
    /\ next_quiz_id = 1
    /\ next_question_id = 1
    /\ listed = NotListed
    /\ destroyed = NotDestroyed
    /\ \E replies \in [Runs -> StoreReplies] :
          runs = [r \in Runs |-> Generated(r, r, replies[r])]

\* the client of a request that is over sends the next one, which comes to
\* _save_quiz in its turn
NextCreate(r) ==
    /\ runs[r].pc = "done"
    /\ next_quiz_id <= MaxQuizzes
    /\ uuid_count' = uuid_count + 1
    /\ \E reply \in StoreReplies :
          Set(r, Generated(r, uuid_count + 1, reply))
    /\ UNCHANGED <<GEMINI_API_KEY, model, load_count, fs, quiz_rows,
                   question_rows, next_quiz_id, next_question_id, listed,
                   destroyed>>

\* creations and deletions of quizzes, interleaved
NextStore ==
    \/ \E r \in Runs :
          \/ SaveQuiz(r)
          \/ BulkCreate(r)
          \/ NextCreate(r)
    \/ \E user \in Users \cup {Anonymous}, id \in 1..next_quiz_id :
          DeleteQuiz(user, id)

SpecStore == InitStore /\ [][NextStore]_vars

\* the most Question rows a stored quiz has
MaxStored == 2

StoredQuizzes == {1, 2}

StoredKinds == {"A", "C", "text", "list"}

\* the keyword arguments of Question.objects.create for question i of a
\* stored quiz: keyed options with the label A or C as the answer, keyed
\* options with the text of an option as the answer, or a list of options
\* as the create request stores them
StoredQuestion(i, kind) ==
    IF kind = "list"
    THEN ValidQ(i)
    ELSE Dict([question_title |-> S("Question " \o ToString(i)),
               question_options |-> KeyedOptions,
               answer |-> IF kind = "text" THEN S("Option B") ELSE S(kind)])

\* quizzes and their questions as the ORM has stored them, each quiz of one
\* of the users
InitView ==
    /\ GEMINI_API_KEY = TRUE
    /\ model = 0
    /\ load_count = 0
    /\ fs = {}
    /\ uuid_count = 0
    /\ next_quiz_id = Cardinality(StoredQuizzes) + 1
    /\ next_question_id = Cardinality(StoredQuizzes) * MaxStored + 1
    /\ runs = [r \in Runs |-> NewRun]
    /\ listed = NotListed
    /\ destroyed = NotDestroyed
    /\ \E owner \in [StoredQuizzes -> Users],
          kinds \in [StoredQuizzes ->
                       UNION {[1..n -> StoredKinds] : n \in 0..MaxStored}] :
          /\ quiz_rows =
                 {quiz_create(id, owner[id], "Test Quiz", MOCK_VIDEO_URL,
                              <<"S">>) : id \in StoredQuizzes}
          /\ question_rows =
                 UNION {{QuestionRow((id - 1) * MaxStored + i, id,
                                     StoredQuestion(i, kinds[id][i])) :
                            i \in DOMAIN kinds[id]} : id \in StoredQuizzes}

\* the list requests of the users
NextView == \E user \in Users : ListQuizzes(user)

SpecView == InitView /\ [][NextView]_vars

(***************************************************************************)
(* Claims                                                                  *)
(***************************************************************************)
\* generate_quiz has returned its list to _run_pipeline
GenerateReturned(run) ==
    \/ run.pc \in {"save_quiz", "bulk_create"}
    \/ run.pc = "done" /\ run.quiz # 0

RunQuestions(r) == QuestionsOf(question_rows, runs[r].quiz)

\* C1: in every state, and in every list response, a Quiz created by a run
\* of the pipeline is there together with all the Question rows of that run
C1_AtomicCreate ==
    /\ \A r \in Runs :
          runs[r].quiz # 0 =>
              Cardinality(RunQuestions(r)) = Len(runs[r].questions_data)
    /\ \A i \in DOMAIN listed.data : \A r \in Runs :
          runs[r].quiz = listed.data[i].id =>
              Len(listed.data[i].questions) = Len(runs[r].questions_data)

\* C2: a run answered 201 has persisted a Quiz with exactly 10 Questions
C2_ExactlyTen ==
    \A r \in Runs :
        runs[r].response.status = 201 => Cardinality(RunQuestions(r)) = 10

\* C3: the answer of every persisted Question is one of that Question's own
\* options and is not empty
C3_AnswerInOptions ==
    \A row \in question_rows :
        /\ row.answer # S("")
        /\ IF row.question_options.kind = "dict"
           THEN row.answer \in {S(k) : k \in Range(row.question_options.keys)}
           ELSE row.answer \in Range(row.question_options.items)

\* C4: an exception raised by acquisition, transcription or generation is
\* answered with 400 and the exception's message as detail
C4_FailureIs400 ==
    \A r \in Runs :
        runs[r].raised.stage
            \in {"download_audio", "transcribe_audio", "generate_quiz"} =>
                /\ runs[r].response.status = 400
                /\ runs[r].response.detail = runs[r].raised.msg

\* C5: a run that failed in a stage of the pipeline has left no Quiz row
\* and no Question row
C5_FailureLeavesNothing ==
    \A r \in Runs :
        runs[r].raised.stage
            \in {"download_audio", "transcribe_audio", "generate_quiz",
                 "save_quiz"} =>
                /\ \A row \in quiz_rows : row.id # runs[r].quiz
                /\ RunQuestions(r) = {}

\* C6: a generate call invokes the external call once per attempt, at most
\* 3 times, each time with the prompt built from the transcript
C6_OneCallPerAttempt ==
    \A r \in Runs :
        LET run == runs[r]
        IN  /\ Len(run.calls) <= 3
            /\ \A i \in DOMAIN run.calls :
                  run.calls[i] = <<"QUIZ_PROMPT">> \o run.transcript
            /\ Len(run.calls) =
                  IF run.pc = "fetch_and_validate"
                  THEN run.attempt - 1
                  ELSE run.attempt

C6_Witness ==
    \E r \in Runs :
        /\ runs[r].pc = "save_quiz"
        /\ Len(runs[r].calls) = 3
        /\ Len(runs[r].transcript) > 1

\* C7: after three attempts that each ended in a validation failure,
\* generate raises a ValueError whose message contains "failed after 3
\* attempts" and ends with the message of the third attempt
C7_ExhaustedMessage ==
    \A r \in Runs :
        LET run == runs[r]
            msg == run.raised.msg
        IN  Len(run.errors) = 3 =>
                /\ run.pc = "done"
                /\ run.raised.exc = "ValueError"
                /\ Contains(msg, <<"failed after ", "3", " attempts">>)
                /\ \E i \in DOMAIN msg :
                      /\ msg[i] = "Last error: "
                      /\ Drop(msg, i) = run.errors[3]

C7_Witness ==
    \E r \in Runs :
        /\ Len(runs[r].errors) = 3
        /\ runs[r].errors[3] # runs[r].errors[1]
        /\ runs[r].errors[3] # runs[r].errors[2]
        /\ runs[r].response.status = 400

\* C8: when generate returns, it returns the records of the last reply (the
\* first 10 of them), that reply is the only one that was not a validation
\* failure, and no call follows it
C8_SuccessReturnsThatAttempt ==
    \A r \in Runs :
        LET run == runs[r]
        IN  GenerateReturned(run) =>
                /\ run.reply.raises = "none"
                /\ run.reply.text.body.type = "array"
                /\ run.questions_data = Take(run.reply.text.body.items, 10)
                /\ Len(run.calls) = Len(run.errors) + 1
                /\ run.attempt = Len(run.calls)

C8_Witness ==
    \E r \in Runs :
        /\ runs[r].pc = "save_quiz"
        /\ Len(runs[r].errors) = 2
        /\ Len(runs[r].questions_data) = 10
        /\ Len(runs[r].reply.text.body.items) > 10

\* C9: without a configured key generate fails at once with the
\* configuration error, and the external call is never invoked
C9_NoKeyNoCall ==
    ~GEMINI_API_KEY =>
        \A r \in Runs :
            LET run == runs[r]
            IN  /\ run.calls = <<>>
                /\ run.errors = <<>>
                /\ run.attempt = 0
                /\ run.pc \notin {"fetch_and_validate", "save_quiz",
                                  "bulk_create"}
                /\ run.raised.stage = "generate_quiz" =>
                      /\ run.raised.exc = "ValueError"
                      /\ Contains(run.raised.msg,
                                  <<"GEMINI_API_KEY is not configured. ">>)

C9_Witness ==
    /\ ~GEMINI_API_KEY
    /\ \E r \in Runs : runs[r].raised.stage = "generate_quiz"

\* a record of the schema: the three keys, a list of 4 options, the answer
\* among them
SchemaValid(q) ==
    /\ q.kind = "dict"
    /\ {"question_title", "question_options", "answer"} \subseteq DOMAIN q.d
    /\ q.d.question_options.kind = "list"
    /\ Len(q.d.question_options.items) = 4
    /\ \E i \in 1..4 : q.d.question_options.items[i] = q.d.answer

\* the reply is a JSON array of 10 records of the schema, bare, padded with
\* whitespace or inside a code fence
TenValidRecords(reply) ==
    /\ reply.raises = "none"
    /\ reply.text.pre \in {<<>>, <<WS, WS>>, <<TICK, TICK, TICK, WS>>,
                           <<TICK, TICK, TICK, "j", "s", "o", "n", WS>>}
    /\ reply.text.post \in {<<>>, <<WS>>, <<WS, TICK, TICK, TICK>>,
                            <<WS, TICK, TICK, TICK, WS>>}
    /\ reply.text.body.type = "array"
    /\ Len(reply.text.body.items) = 10
    /\ \A i \in 1..10 : SchemaValid(reply.text.body.items[i])

\* C10: when the external call returns 10 records of the schema, generate
\* returns those 10 records, in their order and unchanged
C10_TenValidUnchanged ==
    \A r \in Runs :
        LET run == runs[r]
        IN  Len(run.calls) > 0 /\ TenValidRecords(run.reply) =>
                /\ GenerateReturned(run)
                /\ run.questions_data = run.reply.text.body.items

C10_Witness ==
    \E r \in Runs :
        /\ Len(runs[r].calls) > 0
        /\ TenValidRecords(runs[r].reply)
        /\ runs[r].reply.text.pre # <<>>
        /\ runs[r].questions_data = runs[r].reply.text.body.items
        /\ runs[r].questions_data[10].d.answer # runs[r].questions_data[9].d.answer

\* the record carries an answer and options, and the answer is none of the
\* options
AnswerNotInOptions(q) ==
    /\ q.kind = "dict"
    /\ {"question_options", "answer"} \subseteq DOMAIN q.d
    /\ q.d.answer \notin Range(q.d.question_options.items)

\* the last call of the run was answered with text that decodes to an array
RepliedArray(run) ==
    /\ Len(run.calls) > 0
    /\ run.reply.raises = "none"
    /\ parse_questions(clean_response(call_gemini_strip(run.reply.text))).exc
           = "none"

\* the attempt that got the last reply ended in a validation failure whose
\* message names question i
FailedNaming(run, i) ==
    /\ Len(run.errors) = Len(run.calls)
    /\ Take(run.errors[Len(run.errors)], 2) = <<"Question ", ToString(i)>>

\* C11 as stated: whenever a record of the returned array has an answer that
\* is none of its options, the attempt fails and the failure names that
\* record's 1-based index
C11_AnyRecordNamed ==
    \A r \in Runs :
        LET run == runs[r]
            items == run.reply.text.body.items
        IN  RepliedArray(run) =>
                \A i \in DOMAIN items :
                    AnswerNotInOptions(items[i]) => FailedNaming(run, i)

\* C11, amended: a record among the first 10 of the returned array whose
\* answer is none of its options, all records before it being valid, makes
\* the attempt fail with a message that names that record's 1-based index;
\* when the record has its title and four options in a list the message is
\* the one about the answer and quotes it
C11_FirstInvalidNamed ==
    \A r \in Runs :
        LET run == runs[r]
            items == run.reply.text.body.items
        IN  RepliedArray(run) =>
                \A i \in DOMAIN items :
                    ( /\ i <= MAX_QUESTIONS
                      /\ AnswerNotInOptions(items[i])
                      /\ \A j \in 1..(i - 1) : SchemaValid(items[j]) )
                    => ( /\ FailedNaming(run, i)
                         /\ ( /\ "question_title" \in DOMAIN items[i].d
                              /\ items[i].d.question_options.kind = "list"
                              /\ Len(items[i].d.question_options.items)
                                     = NUM_OPTIONS )
                            => ( Take(Drop(run.errors[Len(run.errors)], 2), 3)
                                    = <<" has invalid answer: '",
                                        PyStr(items[i].d.answer), "'. ">> ) )

C11_Witness ==
    \E r \in Runs :
        LET run == runs[r]
            items == run.reply.text.body.items
        IN  /\ RepliedArray(run)
            /\ Len(items) > MAX_QUESTIONS
            /\ AnswerNotInOptions(items[MAX_QUESTIONS])
            /\ FailedNaming(run, MAX_QUESTIONS)
            /\ Len(run.errors) > 1

\* the calls of _run_pipeline in the order it makes them
PipelineOrder ==
    <<"download_audio", "transcribe_audio", "generate_quiz", "save_quiz">>

IsPrefix(s, t) == Len(s) <= Len(t) /\ s = Take(t, Len(s))

\* C12: the stages of a run are started in the order acquisition,
\* transcription, generation, persistence, each one only after all the
\* stages before it have returned, and after a stage has raised the run is
\* over with that stage as the last one started
C12_StagesInOrder ==
    \A r \in Runs :
        LET run == runs[r]
        IN  /\ IsPrefix(run.stages, PipelineOrder)
            /\ IsPrefix(run.finished, run.stages)
            /\ Len(run.stages) <= Len(run.finished) + 1
            /\ run.pc \in {"download_audio", "transcribe_audio",
                           "generate_quiz", "save_quiz"} =>
                  run.finished = run.stages
            /\ run.raised.stage \in Range(PipelineOrder) =>
                  /\ run.pc = "done"
                  /\ run.stages[Len(run.stages)] = run.raised.stage
                  /\ run.finished = Take(run.stages, Len(run.stages) - 1)

C12_Witness ==
    \E r, q \in Runs :
        /\ runs[r].raised.stage = "generate_quiz"
        /\ Len(runs[r].stages) = Len(PipelineOrder) - 1
        /\ runs[q].finished = PipelineOrder
        /\ runs[q].response.status = 201

\* the run's call of transcribe_audio has been made and is over
TranscribeEnded(run) ==
    /\ "transcribe_audio" \in Range(run.stages)
    /\ run.pc \notin {"load_model", "transcribe"}

C14_LoadedOnce ==
    /\ load_count <= 1
    /\ \A r, q \in Runs :
          runs[r].whisper # 0 /\ runs[q].whisper # 0 =>
              runs[r].whisper = runs[q].whisper

Count(seq, x) == Cardinality({i \in DOMAIN seq : seq[i] = x})

\* the request was answered by the permission check or by the validation of
\* its body, before _run_pipeline
Rejected(run) ==
    /\ run.pc = "done"
    /\ run.raised.stage = ""
    /\ run.response.status \in {400, 401}

\* C15: a run calls download_audio once and transcribe_audio at most once,
\* once exactly when download_audio returned, whatever the number of
\* external calls generate_quiz has made
C15_OnceEach ==
    \A r \in Runs :
        LET run == runs[r]
            downloads == Count(run.stages, "download_audio")
            transcriptions == Count(run.stages, "transcribe_audio")
        IN  /\ downloads <= 1
            /\ transcriptions <= 1
            /\ run.pc \notin {"request", "download_audio"} /\ ~Rejected(run)
                  => downloads = 1
            /\ "download_audio" \in Range(run.finished)
                  /\ run.pc # "transcribe_audio"
                  => transcriptions = 1
            /\ "download_audio" \notin Range(run.finished)
                  => transcriptions = 0
            /\ Len(run.calls) > 0 => downloads = 1 /\ transcriptions = 1

C15_Witness ==
    \E r, q \in Runs :
        /\ Len(runs[r].calls) = MAX_RETRIES
        /\ Count(runs[r].stages, "download_audio") = 1
        /\ Count(runs[r].stages, "transcribe_audio") = 1
        /\ runs[q].raised.stage = "download_audio"
        /\ Count(runs[q].stages, "transcribe_audio") = 0

\* a record as _validate_question_structure accepts it and Question(...)
\* takes it: the three keys and no other, four options in a list, the
\* answer one of them
AcceptedShape(q) == SchemaValid(q) /\ DOMAIN q.d = QuestionFields

\* C16: a request whose three stages succeeded, generate_quiz having
\* returned records of the accepted shape, is answered 201 with the
\* persisted quiz and all of its questions in the body
C16_SuccessIs201 ==
    \A r \in Runs :
        LET run == runs[r]
        IN  /\ run.pc = "done"
            /\ "generate_quiz" \in Range(run.finished)
            /\ \A i \in DOMAIN run.questions_data :
                  AcceptedShape(run.questions_data[i])
            => /\ run.response.status = 201
               /\ run.response.data.id = run.quiz
               /\ Len(run.response.data.questions)
                      = Len(run.questions_data)

\* the sum of f over the runs in set
RECURSIVE Sum(_, _)
Sum(f, set) ==
    IF set = {}
    THEN 0
    ELSE LET r == CHOOSE x \in set : TRUE
         IN  f[r] + Sum(f, set \ {r})

\* C17: a run all of whose stages returned has persisted one Quiz: it has
\* the requesting user, the title download_audio returned, the transcript
\* transcribe_audio returned, the url of the request and status completed;
\* the run's records are the Question rows of that Quiz, and no run has
\* created a row besides its own Quiz and that Quiz's Questions
C17_PersistsOneQuiz ==
    /\ Cardinality(quiz_rows) = Cardinality({r \in Runs : runs[r].quiz # 0})
    /\ Cardinality(question_rows) =
          Sum([r \in Runs |->
                  IF "save_quiz" \in Range(runs[r].finished)
                  THEN Len(runs[r].questions_data)
                  ELSE 0], Runs)
    /\ \A r \in Runs :
          LET run == runs[r]
              mine == {row \in quiz_rows : row.id = run.quiz}
              bound == ById(RunQuestions(r))
          IN  run.finished = PipelineOrder =>
                  /\ mine = {[id |-> run.quiz, user |-> run.user,
                              title |-> run.result.title,
                              video_url |-> run.video_url,
                              transcript |-> run.transcript,
                              status |-> "completed"]}
                  /\ run.user = UserOf(r)
                  /\ run.result.title \in Titles
                  /\ run.transcript \in Transcripts
                  /\ url_is_valid(run.video_url)
                  /\ Len(bound) = Len(run.questions_data)
                  /\ \A i \in DOMAIN bound :
                        bound[i].question_title
                            = run.questions_data[i].d.question_title

C17_Witness ==
    \E r, q \in Runs :
        /\ r # q
        /\ runs[r].finished = PipelineOrder
        /\ runs[q].finished = PipelineOrder
        /\ Len(runs[r].questions_data) = MAX_QUESTIONS
        /\ Len(runs[q].questions_data) = 2
        /\ runs[r].result.title # runs[q].result.title

\* the request bodies whose url is missing or is not a URL
BadUrls == {<<>>, <<"not-a-valid-url">>}

\* the request started no stage and created no row
NothingDone(run) ==
    /\ run.pc = "done"
    /\ run.stages = <<>>
    /\ run.calls = <<>>
    /\ run.result = NoResult
    /\ run.quiz = 0

\* C18: a request without credentials is answered 401, a request of a user
\* whose url is missing or is not a URL is answered 400 (naming the field);
\* neither starts a stage of the pipeline nor creates a row
C18_RejectedBeforePipeline ==
    /\ Cardinality(quiz_rows) = Cardinality({r \in Runs : runs[r].quiz # 0})
    /\ \A row \in question_rows : \E r \in Runs : runs[r].quiz = row.quiz
    /\ \A r \in Runs :
          LET run == runs[r]
          IN  run.pc # "request" =>
                  /\ run.user = Anonymous =>
                        run.response.status = 401 /\ NothingDone(run)
                  /\ run.user # Anonymous /\ run.video_url \in BadUrls =>
                        /\ run.response.status = 400
                        /\ run.response.detail = <<"url">>
                        /\ NothingDone(run)

C18_Witness ==
    \E r, q \in Runs :
        /\ runs[r].response.status = 401
        /\ runs[q].response.status = 400
        /\ runs[q].video_url = <<"not-a-valid-url">>
        /\ NothingDone(runs[r])
        /\ NothingDone(runs[q])
        /\ quiz_rows = {}
        /\ fs = {}
        /\ uuid_count = 0

\* C19: every response of the list endpoint to user u holds exactly the
\* quizzes that u owns at that moment
C19_ListsOwnQuizzes ==
    [][listed' # listed =>
          {listed'.data[i].id : i \in DOMAIN listed'.data}
              = {row.id : row \in {q \in quiz_rows : q.user = listed'.user}}
      ]_vars

\* what holds of C19 whatever the response's status: a response never
\* holds a quiz of another user, and a 200 holds all of the user's own
C19_NeverAnothersQuiz ==
    [][listed' # listed =>
          LET ids == {listed'.data[i].id : i \in DOMAIN listed'.data}
              own == {row.id : row \in {q \in quiz_rows :
                                           q.user = listed'.user}}
          IN  /\ ids \subseteq own
              /\ listed'.status = 200 => ids = own
      ]_vars

\* C20: every Question row names exactly one Quiz row that is there, and a
\* step that deletes a Quiz removes that Quiz with all of its Questions and
\* nothing else
C20_QuestionsFollowQuiz ==
    /\ [](\A q \in question_rows :
             Cardinality({row \in quiz_rows : row.id = q.quiz}) = 1)
    /\ [][\A row \in quiz_rows \ quiz_rows' :
             /\ quiz_rows' = quiz_rows \ {row}
             /\ question_rows' = {q \in question_rows : q.quiz # row.id}
         ]_vars

\* a quiz with questions has been deleted and another quiz still has its own
C20_Witness ==
    /\ destroyed.status = 204
    /\ \A row \in quiz_rows : row.id # destroyed.id
    /\ \E q \in question_rows : q.id > destroyed.id
    /\ \E q \in question_rows : q.quiz < destroyed.id
    /\ Cardinality(question_rows) < next_question_id - 1

\* the run's call of transcribe_audio is over and has left the file: its
\* os.remove raised
CleanupFailed(run) ==
    /\ TranscribeEnded(run)
    /\ run.result.audio_path \in fs

\* C21: a run whose cleanup failed is not ended by that failure: no stage
\* of it has raised the error of the deletion, and its request is not
\* answered with a server error
C21_CleanupFailureContained ==
    \A r \in Runs :
        CleanupFailed(runs[r]) =>
            /\ runs[r].raised.exc # "OSError"
            /\ runs[r].response.status # 500

\* model.transcribe returned text that is empty once stripped
BlankSpeech(run) == run.speech.raises = "none" /\ Blank(run.speech.text)

\* C26: transcribe_audio never returns an empty transcript and generate_quiz
\* is never called with one; when the text of the speech model is empty
\* after the strip, the call fails with the ValueError of the empty
\* transcript and the audio file is deleted
C26_EmptyTranscriptFails ==
    \A r \in Runs :
        LET run == runs[r]
        IN  /\ "transcribe_audio" \in Range(run.finished)
                  => run.transcript # <<>>
            /\ "generate_quiz" \in Range(run.stages)
                  => run.transcript # <<>>
            /\ BlankSpeech(run) =>
                  /\ run.raised.stage = "transcribe_audio"
                  /\ run.raised.exc = "ValueError"
                  /\ Contains(run.raised.msg,
                              <<"Transcription returned empty text.">>)
                  /\ run.result.audio_path \notin fs

\* what holds of C26 also when the deletion raises: no empty transcript is
\* returned or passed on, and the call on an empty text fails, with the
\* ValueError of the empty transcript unless the deletion's error took its
\* place
C26_NoEmptyTranscript ==
    \A r \in Runs :
        LET run == runs[r]
        IN  /\ "transcribe_audio" \in Range(run.finished)
                  => run.transcript # <<>>
            /\ "generate_quiz" \in Range(run.stages)
                  => run.transcript # <<>>
            /\ BlankSpeech(run) =>
                  /\ run.raised.stage = "transcribe_audio"
                  /\ \/ /\ run.raised.exc = "ValueError"
                        /\ Contains(run.raised.msg,
                                    <<"Transcription returned empty text.">>)
                        /\ run.result.audio_path \notin fs
                     \/ /\ run.raised.exc = "OSError"
                        /\ run.result.audio_path \in fs

\* every external call of the run so far has returned a text
CallsReturned(run) ==
    /\ run.reply.raises = "none"
    /\ \A i \in DOMAIN run.errors : run.errors[i] # <<"external call failed">>

\* generate_quiz has raised after its last attempt
Exhausted(run) ==
    /\ run.pc = "done"
    /\ run.raised.stage = "generate_quiz"
    /\ run.raised.exc = "ValueError"
    /\ Len(run.errors) = MAX_RETRIES
    /\ Len(run.calls) = MAX_RETRIES
    /\ Contains(run.raised.msg,
                <<"failed after ", ToString(MAX_RETRIES), " attempts">>)

\* generate_quiz has returned a list every record of which is valid
Success(run) ==
    /\ run.pc = "save_quiz"
    /\ Len(run.calls) = run.attempt
    /\ \A i \in DOMAIN run.questions_data : SchemaValid(run.questions_data[i])

\* generate_quiz is at its attempt k: k - 1 calls made, all of them failed
Attempting(run) ==
    /\ run.pc = "fetch_and_validate"
    /\ run.attempt \in 1..MAX_RETRIES
    /\ Len(run.calls) = run.attempt - 1
    /\ Len(run.errors) = run.attempt - 1

\* C22: with a key configured and every external call returning, a call of
\* generate_quiz is at an attempt k <= 3, or has returned a validated list,
\* or has raised after the third attempt; nothing else
C22_GenerateStateMachine ==
    \A r \in Runs :
        LET run == runs[r]
        IN  /\ GEMINI_API_KEY
            /\ "generate_quiz" \in Range(run.stages)
            /\ CallsReturned(run)
            => Attempting(run) \/ Success(run) \/ Exhausted(run)

\* the kept elements of the reply that are not objects
NonObjects(run) ==
    LET items == run.reply.text.body.items
    IN  {i \in DOMAIN items : i <= MAX_QUESTIONS /\ items[i].kind # "dict"}

\* what holds of C22: the only other way a call ends is the TypeError or
\* AttributeError that an element which is not an object raises in the
\* validation
C22_StateMachineButNonObject ==
    \A r \in Runs :
        LET run == runs[r]
        IN  /\ GEMINI_API_KEY
            /\ "generate_quiz" \in Range(run.stages)
            /\ CallsReturned(run)
            => \/ Attempting(run)
               \/ Success(run)
               \/ Exhausted(run)
               \/ /\ run.pc = "done"
                  /\ run.raised.exc \in {"TypeError", "AttributeError"}
                  /\ RepliedArray(run)
                  /\ NonObjects(run) # {}

\* the kept elements of an array that are not records of the schema
Invalid(items) ==
    {i \in DOMAIN items : i <= MAX_QUESTIONS /\ ~SchemaValid(items[i])}

\* the reply is text that is not JSON, or JSON that is not an array, or an
\* array with an element among those kept that is not a record of the schema
Malformed(reply) ==
    LET json_str == clean_response(call_gemini_strip(reply.text))
    IN  \/ JsonDecodeError(json_str) # <<>>
        \/ json_str.body.type # "array"
        \/ Invalid(json_str.body.items) # {}

\* C23: a malformed reply at an attempt before the last is a validation
\* failure of that attempt, and generate_quiz is then at the next attempt
C23_MalformedIsRetried ==
    \A r \in Runs :
        LET run == runs[r]
            k == Len(run.calls)
        IN  /\ k \in 1..(MAX_RETRIES - 1)
            /\ run.reply.raises = "none"
            /\ Malformed(run.reply)
            => /\ run.pc = "fetch_and_validate"
               /\ run.attempt = k + 1
               /\ Len(run.errors) = k

\* what holds of C23: the same when every kept element before the first
\* invalid one, and that one, are objects
C23_MalformedObjectIsRetried ==
    \A r \in Runs :
        LET run == runs[r]
            k == Len(run.calls)
            items == run.reply.text.body.items
        IN  /\ k \in 1..(MAX_RETRIES - 1)
            /\ run.reply.raises = "none"
            /\ Malformed(run.reply)
            /\ RepliedArray(run) =>
                  \A i \in Invalid(items) :
                      (\A j \in Invalid(items) : i <= j) =>
                          items[i].kind = "dict"
            => /\ run.pc = "fetch_and_validate"
               /\ run.attempt = k + 1
               /\ Len(run.errors) = k

\* the check a record fails first, in the order of
\* _validate_question_structure, as the text that follows the index in the
\* message of that check
FirstFailingCheck(q) ==
    IF q.kind # "dict"
          \/ ~({"question_title", "question_options", "answer"}
                   \subseteq DOMAIN q.d)
    THEN " is missing required fields. "
    ELSE IF q.d.question_options.kind # "list"
               \/ Len(q.d.question_options.items) # NUM_OPTIONS
         THEN " must have exactly 4 answer options as a list. "
         ELSE " has invalid answer: '"

\* the attempt failed with the message of the first failing check of
\* element i
FailedNamingCheck(run, i, q) ==
    /\ FailedNaming(run, i)
    /\ run.errors[Len(run.errors)][3] = FirstFailingCheck(q)

\* C30: when two or more of the kept elements of a reply are invalid, the
\* attempt fails with a message that names the smallest index of an invalid
\* element and is the message of the first check that element fails
C30_SmallestIndexFirstCheck ==
    \A r \in Runs :
        LET run == runs[r]
            items == run.reply.text.body.items
            bad == Invalid(items)
        IN  RepliedArray(run) /\ Cardinality(bad) >= 2 =>
                \A i \in bad :
                    (\A j \in bad : i <= j) =>
                        FailedNamingCheck(run, i, items[i])

\* what holds of C30: the same for every reply with an invalid kept element
\* when the first of them is an object, whatever the later ones are
C30_SmallestObjectFirstCheck ==
    \A r \in Runs :
        LET run == runs[r]
            items == run.reply.text.body.items
            bad == Invalid(items)
        IN  RepliedArray(run) =>
                \A i \in bad :
                    (\A j \in bad : i <= j) /\ items[i].kind = "dict" =>
                        FailedNamingCheck(run, i, items[i])

\* C24: when the parsed array has more than 10 elements and its first 10 are
\* valid, generate_quiz returns exactly those 10 in their order, whatever
\* the later elements are; and no failure of an attempt names an element
\* after the 10th
C24_TruncatedBeforeValidated ==
    \A r \in Runs :
        LET run == runs[r]
            items == run.reply.text.body.items
        IN  RepliedArray(run) /\ Len(items) > MAX_QUESTIONS =>
                /\ Invalid(items) = {} =>
                       /\ GenerateReturned(run)
                       /\ run.raised = NotRaised
                       /\ run.questions_data = Take(items, MAX_QUESTIONS)
                /\ \A i \in (MAX_QUESTIONS + 1)..Len(items) :
                       ~FailedNaming(run, i)

\* an array of 11 whose 11th element is invalid has been returned as its
\* first 10
C24_Witness ==
    \E r \in Runs :
        LET run == runs[r]
            items == run.reply.text.body.items
        IN  /\ RepliedArray(run)
            /\ Len(items) = MAX_QUESTIONS + 1
            /\ ~SchemaValid(items[MAX_QUESTIONS + 1])
            /\ GenerateReturned(run)
            /\ run.questions_data = Take(items, MAX_QUESTIONS)

\* the runs that have downloaded an audio file
Downloaded == {r \in Runs : runs[r].result.audio_path # 0}

\* C25: the audio paths of any two runs are distinct, and a step of one run
\* removes no file of another run: the file of a run that does not move is
\* still there after the step
C25_OwnScratchFile ==
    /\ [](\A r, q \in Downloaded :
              r # q => runs[r].result.audio_path # runs[q].result.audio_path)
    /\ [][\A r \in Downloaded :
              runs' # runs /\ runs'[r] = runs[r]
                  /\ runs[r].result.audio_path \in fs
              => runs[r].result.audio_path \in fs']_vars

\* one run has deleted its own file while the file of the other, which is
\* still to be transcribed, is there
C25_Witness ==
    \E r, q \in Downloaded :
        /\ r # q
        /\ runs[r].removed = 1
        /\ runs[r].result.audio_path \notin fs
        /\ runs[q].pc \in {"transcribe_audio", "load_model", "transcribe"}
        /\ runs[q].result.audio_path \in fs

\* the stored row of a represented question
StoredRow(id) == CHOOSE row \in question_rows : row.id = id

\* the options of the row are a mapping of four labels to texts and its
\* answer is one of the labels
KeyedWithLabel(row) ==
    /\ row.question_options.kind = "dict"
    /\ Len(row.question_options.keys) = NUM_OPTIONS
    /\ \E k \in DOMAIN row.question_options.keys :
           S(row.question_options.keys[k]) = row.answer

\* the questions of a list response, as pairs of quiz and question position
Represented ==
    UNION {{<<i, j>> : j \in DOMAIN listed.data[i].questions} :
              i \in DOMAIN listed.data}

C28_ListKeepsMapping ==
    \A p \in Represented :
        LET q == listed.data[p[1]].questions[p[2]]
            row == StoredRow(q.id)
        IN  KeyedWithLabel(row) =>
               /\ q.question_options.kind = "dict"
               /\ "A" \in Range(q.question_options.keys)
               /\ q.answer = row.answer

\* the last external call of the run raised, and generate_quiz ended there:
\* the calls made are those of the attempts up to that one, and what
\* generate_quiz raises is the error of the call, not the error of an
\* exhausted retry loop
EndedByCallError(run) ==
    /\ run.pc = "done"
    /\ run.raised.stage = "generate_quiz"
    /\ run.raised.exc = run.reply.raises
    /\ run.raised.msg = <<"external call failed">>
    /\ Len(run.calls) = run.attempt
    /\ ~Contains(run.raised.msg, <<"failed after ">>)

\* C29: an error raised by the external call ends generate_quiz at that
\* attempt, and is what generate_quiz raises
C29_CallErrorEnds ==
    \A r \in Runs :
        Len(runs[r].calls) > 0 /\ runs[r].reply.raises # "none" =>
            EndedByCallError(runs[r])

\* what holds of C29: the same for every error of the call that is not a
\* ValueError
C29_OtherThanValueErrorEnds ==
    \A r \in Runs :
        /\ Len(runs[r].calls) > 0
        /\ runs[r].reply.raises \notin {"none", "ValueError"}
        => EndedByCallError(runs[r])

====
